---- MODULE Spec2Model ----
(***************************************************************************)
(* Kinematic bicycle car simulation (src/main.py).                         *)
(*                                                                         *)
(* The program computes in IEEE doubles; the model computes in fixed       *)
(* point, every quantity an integer number of units:                       *)
(*   gas position      1/GasScale                                          *)
(*   time              1/TimeScale s   (INTEGRATION_STEP is one unit)      *)
(*   speed, v_x, v_y   1/VelScale m/s                                      *)
(*   x_pos, y_pos      1/PosScale m                                        *)
(*   accelerations     1/AccScale m/s^2 (gas_pos_to_acc: 1/GasScale)       *)
(*   angles, sin, cos  1/AngScale rad (resp. 1/AngScale)                   *)
(* The scales are chosen so that the longitudinal part (speed, time,       *)
(* straight-line position) is exact; math.sin/cos/tan/atan/sqrt are        *)
(* evaluated by series in fixed point and are accurate to a few units of   *)
(* 1/AngScale.  Rounding of the doubles themselves is not modelled.        *)
(***************************************************************************)
EXTENDS Integers, Sequences, FiniteSets, TLC

\* ---------------------------------------------------------------- scales
GasScale == 2
TimeScale == 1000
AngScale == 10000
VelScale == GasScale * TimeScale
PosScale == VelScale * TimeScale
AccScale == VelScale \div TimeScale
FineScale == 10 * AngScale

\* ------------------------------------------------------------- constants
MAX_ACCEL == 6
MAX_DECEL == 10
MAX_SPEED == 60
DRAG_COEF == 0
INTEGRATION_STEP == 1
CAR_LEN == 2
LR == 1

\* ---------------------------------------------------------------- bounds
\* arbitrary input lines main() reads after the repeated leading lines
MaxSteps == 2
\* number of identical leading input lines (gas 1) main() may be fed
HoldSteps == 9999
\* iterations of test_data's loop that are explored (the loop of
\* src/main.py:100 runs 100000 times; the speed saturates after 10000)
TestIters == 15000

\* ------------------------------------------------------------ arithmetic
Abs(a) == IF a < 0 THEN -a ELSE a
Min(a, b) == IF a <= b THEN a ELSE b
Max(a, b) == IF a >= b THEN a ELSE b
\* a / b rounded to the nearest unit, b > 0
RDiv(a, b) == (a + b \div 2) \div b

RECURSIVE SqrtIter(_, _, _)
SqrtIter(n, lo, hi) ==
    IF lo >= hi THEN lo
    ELSE LET mid == (lo + hi + 1) \div 2
         IN IF mid * mid <= n THEN SqrtIter(n, mid, hi)
                              ELSE SqrtIter(n, lo, mid - 1)
\* floor of the square root, 0 <= n < 2^31
Sqrt(n) == SqrtIter(n, 0, 46340)

NormLimit == 23170
\* sqrt(a^2 + b^2); operands above NormLimit are scaled down first
Hypot(a, b) ==
    LET k == Max(Abs(a), Abs(b)) \div NormLimit + 1
        p == Abs(a) \div k
        q == Abs(b) \div k
    IN k * Sqrt(p * p + q * q)

Pi == 31416
HalfPi == 15708
TwoPi == 62832
QuarterPi == 7854

\* sin x for 0 <= x <= HalfPi
SinQ(x) ==
    LET x2 == RDiv(x * x, AngScale)
        t3 == RDiv(RDiv(x * x2, AngScale), 6)
        t5 == RDiv(RDiv(t3 * x2, AngScale), 20)
        t7 == RDiv(RDiv(t5 * x2, AngScale), 42)
        t9 == RDiv(RDiv(t7 * x2, AngScale), 72)
    IN Min(AngScale, Max(0, x - t3 + t5 - t7 + t9))

\* cos x for 0 <= x <= HalfPi
CosQ(x) ==
    LET x2 == RDiv(x * x, AngScale)
        t2 == RDiv(x2, 2)
        t4 == RDiv(RDiv(t2 * x2, AngScale), 12)
        t6 == RDiv(RDiv(t4 * x2, AngScale), 30)
        t8 == RDiv(RDiv(t6 * x2, AngScale), 56)
        t10 == RDiv(RDiv(t8 * x2, AngScale), 90)
    IN Min(AngScale, Max(0, AngScale - t2 + t4 - t6 + t8 - t10))

Sin(a) ==
    LET r == a % TwoPi
    IN IF r <= HalfPi THEN SinQ(r)
       ELSE IF r <= Pi THEN SinQ(Pi - r)
       ELSE IF r <= Pi + HalfPi THEN -SinQ(r - Pi)
       ELSE -SinQ(TwoPi - r)

Cos(a) ==
    LET r == a % TwoPi
    IN IF r <= HalfPi THEN CosQ(r)
       ELSE IF r <= Pi THEN -CosQ(Pi - r)
       ELSE IF r <= Pi + HalfPi THEN -CosQ(r - Pi)
       ELSE CosQ(TwoPi - r)

\* tan a; a is not an odd multiple of pi/2
Tan(a) == RDiv(Sin(a) * AngScale, Cos(a))

\* atan x by its series, x in 1/FineScale, |x| <= tan(pi/16)
AtanSeries(x) ==
    LET x2 == RDiv(x * x, FineScale)
        p3 == RDiv(x * x2, FineScale)
        p5 == RDiv(p3 * x2, FineScale)
        p7 == RDiv(p5 * x2, FineScale)
        p9 == RDiv(p7 * x2, FineScale)
    IN x - RDiv(p3, 3) + RDiv(p5, 5) - RDiv(p7, 7) + RDiv(p9, 9)

\* tan(atan(x) / 2) in 1/FineScale, x in 1/AngScale, 0 <= x <= AngScale
TanHalf(x) ==
    RDiv(x * FineScale, AngScale + Sqrt(AngScale * AngScale + x * x))

\* tan(atan(x) / 2) in 1/FineScale, x in 1/FineScale, 0 <= x <= FineScale / 2
TanHalfFine(x) ==
    LET c == RDiv(x * AngScale, FineScale)
    IN RDiv(x * AngScale, AngScale + Sqrt(AngScale * AngScale + c * c))

\* atan x, 0 <= x <= AngScale: atan x = 4 atan(tan(atan(x) / 4))
AtanUnit(x) ==
    RDiv(4 * AtanSeries(TanHalfFine(TanHalf(x))) * AngScale, FineScale)

Atan(x) ==
    LET m == Abs(x)
        r == IF m <= AngScale THEN AtanUnit(m)
             ELSE HalfPi - AtanUnit(RDiv(AngScale * AngScale, m))
    IN IF x < 0 THEN -r ELSE r

\* ------------------------------------------------------------ the model
\* gas_pos_to_acc without the saturation of its input
gas_pos_to_acc_unclamped(gas_pos) ==
    IF gas_pos >= 0 THEN MAX_ACCEL * gas_pos ELSE MAX_DECEL * gas_pos

\* gas_pos_to_acc with max written for min in the throttle branch
gas_pos_to_acc_minmax(gas_pos) ==
    IF gas_pos >= 0
    THEN MAX_ACCEL * Max(gas_pos, 1 * GasScale)
    ELSE MAX_DECEL * Max(gas_pos, -1 * GasScale)

\* src/main.py:35-39
gas_pos_to_acc(gas_pos) ==
    IF gas_pos >= 0
    THEN MAX_ACCEL * Min(gas_pos, 1 * GasScale)
    ELSE MAX_DECEL * Max(gas_pos, -1 * GasScale)

\* src/main.py:43, the speed before it is clamped
candidate_speed(speed_old, gas_pos) ==
    speed_old
    + ((gas_pos_to_acc(gas_pos) * (VelScale \div GasScale)
        - DRAG_COEF * speed_old) * INTEGRATION_STEP) \div TimeScale

\* update_speed without the MAX_SPEED ceiling
update_speed_no_ceiling(speed_old, gas_pos) ==
    Max(0, candidate_speed(speed_old, gas_pos))

\* update_speed with the ceiling applied to the old speed
update_speed_clamp_old(speed_old, gas_pos) ==
    Max(0, candidate_speed(Min(speed_old, MAX_SPEED * VelScale), gas_pos))

\* update_speed without the floor at 0
update_speed_no_floor(speed_old, gas_pos) ==
    Min(candidate_speed(speed_old, gas_pos), MAX_SPEED * VelScale)

\* src/main.py:42-43
update_speed(speed_old, gas_pos) ==
    Min(Max(0, candidate_speed(speed_old, gas_pos)), MAX_SPEED * VelScale)

\* src/main.py:46-47
beta(steering_angle) == Atan(RDiv(LR * Tan(steering_angle), CAR_LEN))

\* src/main.py:50-51
v_x(speed, heading, steering_angle) ==
    RDiv(speed * Cos(heading + beta(steering_angle)), AngScale)

\* src/main.py:54-55
v_y(speed, heading, steering_angle) ==
    RDiv(speed * Sin(heading + beta(steering_angle)), AngScale)

\* angular_velocity without the cos(beta) factor
angular_velocity_no_cos(speed, steering_angle) ==
    RDiv(speed * Tan(steering_angle), CAR_LEN * VelScale)

\* src/main.py:58-59, in 1/AngScale rad/s
angular_velocity(speed, steering_angle) ==
    RDiv(speed * RDiv(Tan(steering_angle) * Cos(beta(steering_angle)), AngScale),
         CAR_LEN * VelScale)

\* src/main.py:18-31, 73-86
CarState(timestamp, gas_position, steer_angle, heading_angle, x_pos, y_pos, vx, vy, speed, accel_x, accel_y, accel_norm) ==
    [timestamp |-> timestamp, gas_position |-> gas_position,
     steer_angle |-> steer_angle, heading_angle |-> heading_angle,
     x_pos |-> x_pos, y_pos |-> y_pos, v_x |-> vx, v_y |-> vy,
     speed |-> speed, accel_x |-> accel_x, accel_y |-> accel_y,
     accel_norm |-> accel_norm]

\* src/main.py:63-86, the state computed from car and the two inputs
next_state(c, gas_pos, steer_angle) ==
    LET speed == update_speed(c.speed, gas_pos)
        heading_angle == c.heading_angle
            + RDiv(angular_velocity(speed, steer_angle) * INTEGRATION_STEP, TimeScale)
        vx == v_x(speed, heading_angle, steer_angle)
        vy == v_y(speed, heading_angle, steer_angle)
        x_pos == c.x_pos + vx * INTEGRATION_STEP * (PosScale \div (VelScale * TimeScale))
        y_pos == c.y_pos + vy * INTEGRATION_STEP * (PosScale \div (VelScale * TimeScale))
        timestamp == c.timestamp + INTEGRATION_STEP
        ax == ((vx - c.v_x) * AccScale * TimeScale) \div (INTEGRATION_STEP * VelScale)
        ay == ((vy - c.v_y) * AccScale * TimeScale) \div (INTEGRATION_STEP * VelScale)
    IN CarState(timestamp, gas_pos, steer_angle, heading_angle, x_pos, y_pos,
                vx, vy, speed, ax, ay, Hypot(ax, ay))

\* update_car with the position advanced by the previous state's velocity
update_car_forward_euler(c, gas_pos, steer_angle) ==
    [next_state(c, gas_pos, steer_angle) EXCEPT
        !.x_pos = c.x_pos + c.v_x * INTEGRATION_STEP * (PosScale \div (VelScale * TimeScale)),
        !.y_pos = c.y_pos + c.v_y * INTEGRATION_STEP * (PosScale \div (VelScale * TimeScale))]

\* update_car returning the old timestamp
update_car_stale_time(c, gas_pos, steer_angle) ==
    [next_state(c, gas_pos, steer_angle) EXCEPT !.timestamp = c.timestamp]

\* update_car recording the saturated gas position
update_car_clamped_gas(c, gas_pos, steer_angle) ==
    [next_state(c, gas_pos, steer_angle) EXCEPT
        !.gas_position = Max(-1 * GasScale, Min(gas_pos, 1 * GasScale))]

\* src/main.py:62-86
update_car(c, gas_pos, steer_angle) == next_state(c, gas_pos, steer_angle)

\* ------------------------------------------------------- state machine
VARIABLES
    prog,       \* the entry point that runs: "main" or "test_data"
    heap,       \* the CarState objects: reference |-> fields
    car,        \* the reference held by the local variable car
    g,          \* the gas position of the last call
    s,          \* the steering angle of the last call
    acc,        \* what gas_pos_to_acc returned in the last call
    steps,      \* completed loop iterations (test_data's i)
    stdin,      \* the input main() has yet to read
    gasSeen,    \* history: the gas positions supplied so far
    steerSeen   \* history: the steering angles supplied so far

vars == <<prog, heap, car, g, s, acc, steps, stdin, gasSeen, steerSeen>>

\* gas positions the driver may type: -GasMax/GasScale .. GasMax/GasScale
GasMax == 3
GasInputs == (-GasMax)..GasMax
SteerInputs == {-QuarterPi, 0, QuarterPi}
GasOne == 1 * GasScale

\* src/main.py:90, 99: the stationary car at the origin
InitialCar == CarState(0, 0, 0, 0, 0, 0, 0, 0, 0, 0, 0, 0)

\* update_car writing its results into the argument object as well
HeapAfterCall_inplace(h, ref, gas_pos, steer_angle) ==
    [r \in {ref, ref + 1} |-> update_car(h[ref], gas_pos, steer_angle)]

\* the heap once update_car(h[ref], gas_pos, steer_angle) has returned: the
\* argument object as the call left it and the object the call constructed
HeapAfterCall(h, ref, gas_pos, steer_angle) ==
    [r \in {ref, ref + 1} |->
        IF r = ref THEN h[ref] ELSE update_car(h[ref], gas_pos, steer_angle)]

\* car = update_car(car, gas_pos, steer_angle)
Step(gas_pos, steer_angle) ==
    /\ heap' = HeapAfterCall(heap, car, gas_pos, steer_angle)
    /\ car' = car + 1
    /\ g' = gas_pos
    /\ s' = steer_angle
    /\ acc' = gas_pos_to_acc(gas_pos)
    /\ steps' = steps + 1
    /\ gasSeen' = gasSeen \cup {gas_pos}
    /\ steerSeen' = steerSeen \cup {steer_angle}

\* the input main() can be fed: hold identical lines (gas 1, one steering
\* angle), then rest arbitrary lines
Stdins ==
    {[hold |-> 0, steer |-> 0, rest |-> MaxSteps]}
    \cup {[hold |-> HoldSteps, steer |-> a, rest |-> MaxSteps] : a \in {0, QuarterPi}}

Init ==
    /\ prog \in {"main", "test_data"}
    /\ heap = [r \in {0} |-> InitialCar]
    /\ car = 0
    /\ g = 0
    /\ s = 0
    /\ acc = 0
    /\ steps = 0
    /\ stdin \in IF prog = "main" THEN Stdins
                 ELSE {[hold |-> 0, steer |-> 0, rest |-> 0]}
    /\ gasSeen = {}
    /\ steerSeen = {}

\* the lines main() can read next
Lines ==
    IF stdin.hold > 0 THEN {<<GasOne, stdin.steer>>}
    ELSE IF stdin.rest > 0 THEN GasInputs \X SteerInputs
    ELSE {}

\* src/main.py:91-95, one iteration of main's loop
MainLoop ==
    /\ prog = "main"
    /\ \E line \in Lines : Step(line[1], line[2])
    /\ stdin' = IF stdin.hold > 0 THEN [stdin EXCEPT !.hold = @ - 1]
                ELSE [stdin EXCEPT !.rest = @ - 1]
    /\ UNCHANGED prog

\* src/main.py:100-102, one iteration of test_data's loop
TestData ==
    /\ prog = "test_data"
    /\ steps < TestIters
    /\ Step(GasOne, QuarterPi)
    /\ UNCHANGED <<prog, stdin>>

Next == MainLoop \/ TestData

Spec == Init /\ [][Next]_vars

\* the state the variable car refers to, and the argument of the last call
Car == heap[car]
Arg == heap[car - 1]

\* ----------------------------------------------------------- properties
MaxSpeedUnits == MAX_SPEED * VelScale
Clamp(x, lo, hi) == Max(lo, Min(x, hi))
\* the speed before clamping in the last call
LastCandidate ==
    Arg.speed + ((acc * (VelScale \div GasScale) - DRAG_COEF * Arg.speed)
                 * INTEGRATION_STEP) \div TimeScale
\* every input so far was full throttle / full brake / zero / straight
FullThrottle == gasSeen = {GasOne}
FullBrake == gasSeen = {-GasOne}
Straight == steerSeen = {0}

\* C1: in every reachable state 0 <= speed <= MAX_SPEED, whatever gas
\* positions in [-1.5, 1.5] and steering angles were supplied.
C1_SpeedBound == Car.speed >= 0 /\ Car.speed <= MaxSpeedUnits

\* an out-of-range throttle command was cut off at the ceiling
C1_Witness ==
    /\ steps > 0
    /\ g > GasOne
    /\ Arg.speed < MaxSpeedUnits
    /\ LastCandidate > MaxSpeedUnits
    /\ Car.speed = MaxSpeedUnits

\* C2: from rest under gas position 1 at every step, the speed never
\* exceeds MAX_SPEED and equals MAX_SPEED after every N-th step with
\* N * MAX_ACCEL * INTEGRATION_STEP >= MAX_SPEED, so it also stays there.
C2_Saturation ==
    FullThrottle =>
        /\ Car.speed <= MaxSpeedUnits
        /\ (steps * MAX_ACCEL * INTEGRATION_STEP >= MAX_SPEED * TimeScale
                => Car.speed = MaxSpeedUnits)

\* a step taken at the ceiling in main, under straight steering
C2_Witness ==
    /\ prog = "main"
    /\ FullThrottle
    /\ Straight
    /\ steps * MAX_ACCEL * INTEGRATION_STEP > MAX_SPEED * TimeScale
    /\ Arg.speed = MaxSpeedUnits
    /\ Car.speed = MaxSpeedUnits

\* C3: gas_pos_to_acc saturates its input to [-1, 1] and scales it by
\* MAX_ACCEL (g >= 0) or MAX_DECEL (g < 0); the result lies in
\* [-MAX_DECEL, MAX_ACCEL], is >= 0 exactly when g >= 0, is MAX_ACCEL for
\* g >= 1 and -MAX_DECEL for g <= -1.
C3_GasToAcc ==
    steps > 0 =>
        /\ g >= 0 => acc = MAX_ACCEL * Clamp(g, 0, GasOne)
        /\ g < 0 => acc = MAX_DECEL * Clamp(g, -GasOne, 0)
        /\ acc >= -MAX_DECEL * GasScale
        /\ acc <= MAX_ACCEL * GasScale
        /\ (acc >= 0) <=> (g >= 0)
        /\ g >= GasOne => acc = MAX_ACCEL * GasScale
        /\ g <= -GasOne => acc = -MAX_DECEL * GasScale

\* a brake command below -1 was saturated
C3_Witness == steps > 0 /\ g < -GasOne /\ acc = -MAX_DECEL * GasScale

\* C4: braking from rest with gas position -1 leaves the speed at exactly
\* 0 after every step, and whenever the integrated speed would be below 0
\* update_speed returns exactly 0.
C4_BrakingFloor ==
    steps > 0 =>
        /\ FullBrake => Car.speed = 0
        /\ LastCandidate < 0 => Car.speed = 0

\* a moving car was braked to a standstill by a step that would have
\* reversed it
C4_Witness ==
    /\ steps > 1
    /\ g = -GasOne
    /\ Arg.speed > 0
    /\ LastCandidate < 0
    /\ Car.speed = 0

\* C5: under gas position 0 and steering angle 0 at every step the car
\* stays at rest at the origin with heading 0.
C5_Stationary ==
    (gasSeen \subseteq {0} /\ steerSeen \subseteq {0}) =>
        /\ Car.speed = 0
        /\ Car.x_pos = 0
        /\ Car.y_pos = 0
        /\ Car.heading_angle = 0

\* two zero-input steps have been taken
C5_Witness ==
    /\ gasSeen = {0}
    /\ steerSeen = {0}
    /\ steps >= 2
    /\ Car.timestamp >= 2 * INTEGRATION_STEP

\* C6: every call advances the timestamp by exactly INTEGRATION_STEP, so
\* after n calls it is n integration steps, whatever the inputs.
C6_MonotonicTime ==
    [][steps' # steps =>
        /\ heap'[car'].timestamp = heap[car].timestamp + INTEGRATION_STEP
        /\ heap'[car'].timestamp > heap[car].timestamp
        /\ heap'[car'].timestamp = steps' * INTEGRATION_STEP]_vars

\* several steps with differing inputs
C6_Witness ==
    /\ steps >= 2
    /\ Cardinality(gasSeen) >= 2
    /\ Cardinality(steerSeen) >= 2
    /\ Car.timestamp = steps * INTEGRATION_STEP

\* C7: the returned state records the gas position and steering angle it
\* was called with, unmodified, also for a gas position outside [-1, 1].
C7_RawInputs ==
    steps > 0 => Car.gas_position = g /\ Car.steer_angle = s

\* a gas position above 1 was recorded as supplied while the acceleration
\* was saturated
C7_Witness ==
    /\ steps > 0
    /\ g > GasOne
    /\ Car.gas_position = g
    /\ acc = MAX_ACCEL * GasScale
    /\ Car.steer_angle = QuarterPi

\* C8: update_car leaves every field of its argument as it was, returns a
\* different object, and called again on that argument with the same
\* inputs returns an equal state.
C8_NoMutation ==
    [][steps' # steps =>
        /\ car \in DOMAIN heap'
        /\ heap'[car] = heap[car]
        /\ car' # car
        /\ car' \in DOMAIN heap'
        /\ update_car(heap'[car], g', s') = heap'[car']]_vars

\* a call on a moving car: argument and result coexist and differ
C8_Witness ==
    /\ steps > 1
    /\ Arg.speed > 0
    /\ Arg # Car
    /\ update_car(Arg, g, s) = Car

\* C9, as stated: in test_data, once the speed is MAX_SPEED the accel_norm
\* of each further state is lower than that of the state before it.
C9_Original ==
    (prog = "test_data" /\ steps > 1
        /\ Arg.speed = MaxSpeedUnits /\ Car.speed = MaxSpeedUnits)
    => Car.accel_norm < Arg.accel_norm

\* the centripetal acceleration v^2 * tan(steer) * cos(beta) / CAR_LEN at
\* v = MAX_SPEED, steer = pi/4: tan = 1, tan(beta) = LR / CAR_LEN, so
\* cos(beta) = 2 / sqrt(5)
Centripetal == Sqrt(((MAX_SPEED * MAX_SPEED * AccScale) ^ 2) \div 5)

\* C9, amended: in test_data, every state with speed MAX_SPEED has an
\* accel_norm within 2% of the centripetal acceleration of the turn; it
\* does not approach 0.
C9_Centripetal ==
    (prog = "test_data" /\ Car.speed = MaxSpeedUnits) =>
        /\ 100 * Car.accel_norm >= 98 * Centripetal
        /\ 100 * Car.accel_norm <= 102 * Centripetal

\* the last iteration of test_data's loop, long after saturation
C9_Witness ==
    /\ prog = "test_data"
    /\ steps = TestIters
    /\ Arg.speed = MaxSpeedUnits
    /\ Car.speed = MaxSpeedUnits
    /\ Car.accel_norm > 0

\* C10: under steering angle 0 at every step, heading_angle, y_pos and v_y
\* stay 0, v_x is the speed of this step, and x_pos advances by the new
\* speed times INTEGRATION_STEP, so never decreases; one step with gas
\* position 1 from rest gives speed MAX_ACCEL * INTEGRATION_STEP and
\* x_pos = speed * INTEGRATION_STEP.
C10_StraightLine ==
    (steps > 0 /\ Straight) =>
        /\ Car.heading_angle = 0
        /\ Car.y_pos = 0
        /\ Car.v_y = 0
        /\ Car.v_x = Car.speed
        /\ Car.x_pos = Arg.x_pos
             + Car.speed * INTEGRATION_STEP * (PosScale \div (VelScale * TimeScale))
        /\ Car.x_pos >= Arg.x_pos
        /\ (steps = 1 /\ g = GasOne) =>
              /\ Car.speed * GasScale * TimeScale
                   = MAX_ACCEL * GasOne * INTEGRATION_STEP * VelScale
              /\ Car.x_pos
                   = Car.speed * INTEGRATION_STEP * (PosScale \div (VelScale * TimeScale))

\* a straight-line step that changed the speed of a moving car
C10_Witness ==
    /\ steps > 1
    /\ Straight
    /\ Arg.speed > 0
    /\ Car.speed > Arg.speed
    /\ Car.x_pos > Arg.x_pos

====
